---- MODULE Spec2Model ----
(***************************************************************************)
(* A model of rust-dict's Dictionary<K, V> (src/src/dict.rs): an ordered   *)
(* map kept as two parallel vectors (keys, values), a HashMap from key to  *)
(* position (key_map) and two counters (len, capacity).                    *)
(*                                                                         *)
(* Positions are 0-based as in the source; the TLA+ sequences that model   *)
(* the vectors are 1-based, so position p is element p + 1.                *)
(* A dictionary value is a record d with the struct's five fields.  Every  *)
(* method is an operator from the dictionary (and the arguments) to an     *)
(* outcome [d, status, ret]: the dictionary as the call leaves it (also    *)
(* when it panics half way), "ok" or the kind of panic, and the returned   *)
(* value.                                                                  *)
(***************************************************************************)
EXTENDS Integers, Sequences, FiniteSets, TLC

VARIABLES len, capacity, keys, key_map, values, status, last, hist

vars == <<len, capacity, keys, key_map, values, status, last, hist>>

\* ------------------------------------------------------------------ bounds
\* Spec: keys, values, entries, with_capacity's and reserve's argument, capacity
MaxKey == 2
MaxVal == 2
MaxLen == 2
MaxCap == 1
MaxReserve == 1
MaxCapacity == 4
\* SpecBuilt: entries, and as many keys
BuiltLen == 3
\* SpecGrowth: consecutive push_back calls
MaxPush == 8
\* SpecWide: entries
WideLen == 3
\* SpecCapacity: the largest capacity from which growth is followed
MaxGrow == 7
\* SpecPush: entries
PushLen == 4

Keys == 1..MaxKey
Vals == 1..MaxVal
BuiltKeys == 1..BuiltLen

\* ------------------------------------------------ Option, Vec, HashMap
None == [some |-> FALSE]
Some(v) == [some |-> TRUE, val |-> v]

\* HashMap::new
EmptyMap == [k \in {} |-> 0]
\* HashMap::insert: the entry is created or overwritten
MapInsert(m, k, i) == [x \in (DOMAIN m) \cup {k} |-> IF x = k THEN i ELSE m[x]]
\* HashMap::remove
MapRemove(m, k) == [x \in (DOMAIN m) \ {k} |-> m[x]]

\* Vec::insert(index, x), for index <= len
VecInsert(s, index, x) == SubSeq(s, 1, index) \o <<x>> \o SubSeq(s, index + 1, Len(s))
\* Vec::swap_remove for Vec::remove: the last element fills the gap
VecSwapRemove(s, index) ==
    IF index + 1 = Len(s) THEN SubSeq(s, 1, index)
    ELSE [SubSeq(s, 1, Len(s) - 1) EXCEPT ![index + 1] = s[Len(s)]]

\* Vec::remove(index), for index < len
VecRemove(s, index) == SubSeq(s, 1, index) \o SubSeq(s, index + 2, Len(s))
\* s[i], for i < len
At(s, i) == s[i + 1]
\* swap of the elements at positions i and j
Swap(s, i, j) == [s EXCEPT ![i + 1] = s[j + 1], ![j + 1] = s[i + 1]]

\* ------------------------------------------------------------ the struct
Dict(l, c, ks, km, vs) ==
    [len |-> l, capacity |-> c, keys |-> ks, key_map |-> km, values |-> vs]

Self == Dict(len, capacity, keys, key_map, values)

Outcome(d, st, r) == [d |-> d, status |-> st, ret |-> r]

new == Dict(0, 0, <<>>, EmptyMap, <<>>)

with_capacity(size) == Dict(0, size, <<>>, EmptyMap, <<>>)

\* ------------------------------------------------------------- push_back
RECURSIVE shift_count(_)
\* the loop of update_capacity: how often temp is halved while temp > 1
shift_count(temp) == IF temp > 1 THEN 1 + shift_count(temp \div 2) ELSE 0

\* 1 << n for 2 << n
update_capacity_shl1(d) == [d EXCEPT !.capacity = 2 ^ shift_count(d.capacity)]

\* plain doubling of the capacity, 0 becoming 2
update_capacity_double(d) ==
    [d EXCEPT !.capacity = IF d.capacity = 0 THEN 2 ELSE 2 * d.capacity]

update_capacity(d) == [d EXCEPT !.capacity = 2 * (2 ^ shift_count(d.capacity))]

\* the growth test is len > capacity
push_back_late(d, key, value) ==
    LET d1 == IF d.len > d.capacity THEN update_capacity(d) ELSE d
    IN  Outcome([d1 EXCEPT !.keys = Append(@, key),
                           !.key_map = MapInsert(@, key, d.len),
                           !.len = @ + 1,
                           !.values = Append(@, value)],
                "ok", None)

\* the entry of a held key is kept as it is (entry().or_insert)
push_back_keep_first(d, key, value) ==
    LET d1 == IF d.len = d.capacity THEN update_capacity(d) ELSE d
    IN  Outcome([d1 EXCEPT !.keys = Append(@, key),
                           !.key_map = IF key \in DOMAIN @ THEN @ ELSE MapInsert(@, key, d.len),
                           !.len = @ + 1,
                           !.values = Append(@, value)],
                "ok", None)

push_back(d, key, value) ==
    LET d1 == IF d.len = d.capacity THEN update_capacity(d) ELSE d
    IN  Outcome([d1 EXCEPT !.keys = Append(@, key),
                           !.key_map = MapInsert(@, key, d.len),
                           !.len = @ + 1,
                           !.values = Append(@, value)],
                "ok", None)

\* ---------------------------------------------------------------- remove
\* the loop over key_map.iter_mut() left out
ShiftDownNone(m, index) == m

\* the loop over key_map.iter_mut(): every stored position above index drops by one
ShiftDown(m, index) == [x \in DOMAIN m |-> IF m[x] > index THEN m[x] - 1 ELSE m[x]]

\* key_map.remove(&key) comes first, so a panic of values.remove(index) leaves the
\* entry removed.  self.len -= 1 on len = 0 aborts in a debug build and wraps in a
\* release build: both are the status "len_underflow", after which nothing is modelled.
remove(d, key) ==
    IF key \notin DOMAIN d.key_map THEN Outcome(d, "ok", None)
    ELSE LET index == d.key_map[key]
             d1 == [d EXCEPT !.key_map = MapRemove(@, key)]
         IN  IF index >= Len(d.values) THEN Outcome(d1, "panic_index", None)
             ELSE LET d2 == [d1 EXCEPT !.values = VecRemove(@, index),
                                       !.keys = VecRemove(@, index),
                                       !.key_map = ShiftDown(@, index)]
                  IN  IF d.len = 0 THEN Outcome(d2, "len_underflow", None)
                      ELSE Outcome([d2 EXCEPT !.len = @ - 1], "ok",
                                   Some(At(d.values, index)))

\* ---------------------------------------------------------------- insert
RECURSIVE IncrementFrom(_, _, _)
\* the loop `for key in &self.keys[index + 1..]`: p is the 0-based position of the
\* key visited next.  A key with no entry makes unwrap() panic with the increments
\* done so far kept.
IncrementFrom(ks, m, p) ==
    IF p >= Len(ks) THEN [map |-> m, ok |-> TRUE]
    ELSE IF At(ks, p) \notin DOMAIN m THEN [map |-> m, ok |-> FALSE]
    ELSE IncrementFrom(ks, [m EXCEPT ![At(ks, p)] = @ + 1], p + 1)

\* the loop starts at index, the position of the inserted key, not at index + 1
insert_from_index(d, key, value, index) ==
    IF index > Len(d.values) THEN Outcome(d, "panic_index", None)
    ELSE LET vs == VecInsert(d.values, index, value)
             ks == VecInsert(d.keys, index, key)
             r  == IncrementFrom(ks, d.key_map, index)
         IN  Outcome([d EXCEPT !.values = vs, !.keys = ks, !.key_map = r.map],
                     IF r.ok THEN "ok" ELSE "panic_unwrap", None)

\* len is counted up as push_back counts it
insert_counting(d, key, value, index) ==
    IF index > Len(d.values) THEN Outcome(d, "panic_index", None)
    ELSE LET vs == VecInsert(d.values, index, value)
             ks == VecInsert(d.keys, index, key)
             r  == IncrementFrom(ks, d.key_map, index + 1)
         IN  Outcome([d EXCEPT !.values = vs, !.keys = ks, !.key_map = r.map, !.len = @ + 1],
                     IF r.ok THEN "ok" ELSE "panic_unwrap", None)

\* Vec::insert panics for index > len before it changes anything.  Neither len
\* nor capacity is written, and the inserted key gets no key_map entry.
insert(d, key, value, index) ==
    IF index > Len(d.values) THEN Outcome(d, "panic_index", None)
    ELSE LET vs == VecInsert(d.values, index, value)
             ks == VecInsert(d.keys, index, key)
             r  == IncrementFrom(ks, d.key_map, index + 1)
         IN  Outcome([d EXCEPT !.values = vs, !.keys = ks, !.key_map = r.map],
                     IF r.ok THEN "ok" ELSE "panic_unwrap", None)

\* --------------------------------------------------------------- getters
get(d, key) ==
    IF key \notin DOMAIN d.key_map THEN Outcome(d, "ok", None)
    ELSE IF d.key_map[key] >= Len(d.values) THEN Outcome(d, "panic_index", None)
    ELSE Outcome(d, "ok", Some(At(d.values, d.key_map[key])))

get_index(d, i) ==
    IF i >= d.len THEN Outcome(d, "ok", None)
    ELSE IF i >= Len(d.values) THEN Outcome(d, "panic_index", None)
    ELSE Outcome(d, "ok", Some(At(d.values, i)))

get_or(d, key, default) ==
    IF key \notin DOMAIN d.key_map THEN Outcome(d, "ok", default)
    ELSE IF d.key_map[key] >= Len(d.values) THEN Outcome(d, "panic_index", None)
    ELSE Outcome(d, "ok", At(d.values, d.key_map[key]))

reserve(d, size) == Outcome([d EXCEPT !.capacity = @ + size], "ok", None)

\* ---------------------------------------------------------- sort_by_keys
RECURSIVE InsertSorted(_, _)
InsertSorted(x, s) ==
    IF s = <<>> THEN <<x>>
    ELSE IF x < Head(s) THEN <<x>> \o s
    ELSE <<Head(s)>> \o InsertSorted(x, Tail(s))

RECURSIVE VecSort(_)
\* Vec::sort: the keys in ascending order
VecSort(s) == IF s = <<>> THEN <<>> ELSE InsertSorted(Head(s), VecSort(Tail(s)))

RECURSIVE SwapLoop(_, _, _, _, _)
\* the loop over self.keys[..self.len / 2]: the value at the position the key has
\* in the sorted keys is swapped with the value at the position key_map (not yet
\* recomputed) holds for the key
SwapLoop(ks, km, vs, new_i, half) ==
    IF new_i >= half THEN [values |-> vs, status |-> "ok"]
    ELSE IF At(ks, new_i) \notin DOMAIN km THEN [values |-> vs, status |-> "panic_unwrap"]
    ELSE IF km[At(ks, new_i)] >= Len(vs) THEN [values |-> vs, status |-> "panic_index"]
    ELSE SwapLoop(ks, km, Swap(vs, new_i, km[At(ks, new_i)]), new_i + 1, half)

RECURSIVE RecomputeLoop(_, _, _)
RecomputeLoop(ks, km, i) ==
    IF i >= Len(ks) THEN [map |-> km, ok |-> TRUE]
    ELSE IF At(ks, i) \notin DOMAIN km THEN [map |-> km, ok |-> FALSE]
    ELSE RecomputeLoop(ks, [km EXCEPT ![At(ks, i)] = i], i + 1)

recompute_map(d) ==
    LET r == RecomputeLoop(d.keys, d.key_map, 0)
    IN  Outcome([d EXCEPT !.key_map = r.map], IF r.ok THEN "ok" ELSE "panic_unwrap", None)

sort_by_keys(d) ==
    LET ks == VecSort(d.keys)
        half == d.len \div 2
    IN  IF half > Len(ks) THEN Outcome([d EXCEPT !.keys = ks], "panic_index", None)
        ELSE LET r == SwapLoop(ks, d.key_map, d.values, 0, half)
                 d1 == [d EXCEPT !.keys = ks, !.values = r.values]
             IN  IF r.status # "ok" THEN Outcome(d1, r.status, None)
                 ELSE recompute_map(d1)

\* -------------------------------------------------------- sort_by_values
RECURSIVE BubblePassValuesOnly(_, _, _, _, _)
\* the swap moves the values and leaves the keys
BubblePassValuesOnly(ks, vs, j, n, swapped) ==
    IF j >= n THEN [keys |-> ks, values |-> vs, swapped |-> swapped, status |-> "ok"]
    ELSE IF j + 1 >= Len(vs) \/ j + 1 >= Len(ks)
         THEN [keys |-> ks, values |-> vs, swapped |-> swapped, status |-> "panic_index"]
    ELSE IF At(vs, j) > At(vs, j + 1)
         THEN BubblePassValuesOnly(ks, Swap(vs, j, j + 1), j + 1, n, TRUE)
    ELSE BubblePassValuesOnly(ks, vs, j + 1, n, swapped)

RECURSIVE BubblePassOrEqual(_, _, _, _, _)
\* equal neighbours are swapped too (>= for >)
BubblePassOrEqual(ks, vs, j, n, swapped) ==
    IF j >= n THEN [keys |-> ks, values |-> vs, swapped |-> swapped, status |-> "ok"]
    ELSE IF j + 1 >= Len(vs) \/ j + 1 >= Len(ks)
         THEN [keys |-> ks, values |-> vs, swapped |-> swapped, status |-> "panic_index"]
    ELSE IF At(vs, j) >= At(vs, j + 1)
         THEN BubblePassOrEqual(Swap(ks, j, j + 1), Swap(vs, j, j + 1), j + 1, n, TRUE)
    ELSE BubblePassOrEqual(ks, vs, j + 1, n, swapped)

RECURSIVE BubblePass(_, _, _, _, _)
\* the inner loop `for j in 0..self.len - i - 1`, n being its upper end
BubblePass(ks, vs, j, n, swapped) ==
    IF j >= n THEN [keys |-> ks, values |-> vs, swapped |-> swapped, status |-> "ok"]
    ELSE IF j + 1 >= Len(vs) \/ j + 1 >= Len(ks)
         THEN [keys |-> ks, values |-> vs, swapped |-> swapped, status |-> "panic_index"]
    ELSE IF At(vs, j) > At(vs, j + 1)
         THEN BubblePass(Swap(ks, j, j + 1), Swap(vs, j, j + 1), j + 1, n, TRUE)
    ELSE BubblePass(ks, vs, j + 1, n, swapped)

\* one pass only: the outer loop is left after its first round
BubbleSortOnePass(ks, vs, i, n) ==
    IF i >= n THEN [keys |-> ks, values |-> vs, status |-> "ok"]
    ELSE LET p == BubblePass(ks, vs, 0, n - i - 1, FALSE)
         IN  [keys |-> p.keys, values |-> p.values, status |-> p.status]

RECURSIVE BubbleSort(_, _, _, _)
\* the outer loop `for i in 0..self.len`, left at the first pass that swaps nothing
BubbleSort(ks, vs, i, n) ==
    IF i >= n THEN [keys |-> ks, values |-> vs, status |-> "ok"]
    ELSE LET p == BubblePass(ks, vs, 0, n - i - 1, FALSE)
         IN  IF p.status # "ok" \/ ~p.swapped
             THEN [keys |-> p.keys, values |-> p.values, status |-> p.status]
             ELSE BubbleSort(p.keys, p.values, i + 1, n)

sort_by_values(d) ==
    LET r == BubbleSort(d.keys, d.values, 0, d.len)
        d1 == [d EXCEPT !.keys = r.keys, !.values = r.values]
    IN  IF r.status # "ok" THEN Outcome(d1, r.status, None) ELSE recompute_map(d1)

\* --------------------------------------------------------------- DictIter
\* IntoIterator for Dictionary: the two vectors are moved into the iterator
into_iter(d) == [key_iter |-> d.keys, val_iter |-> d.values]

\* the value stream is read but not advanced
next_same_value(it, debug) ==
    LET ksome == it.key_iter # <<>>
        vsome == it.val_iter # <<>>
        rest == [key_iter |-> IF ksome THEN Tail(it.key_iter) ELSE <<>>,
                 val_iter |-> IF ksome THEN it.val_iter ELSE <<>>]
    IN  IF debug /\ (ksome # vsome) THEN [it |-> rest, status |-> "debug_assert", item |-> None]
        ELSE IF ksome /\ vsome
             THEN [it |-> rest, status |-> "ok",
                   item |-> Some(<<Head(it.key_iter), Head(it.val_iter)>>)]
        ELSE [it |-> rest, status |-> "ok", item |-> None]

\* Iterator::next.  debug is the build: debug_assert! is compiled in or not.
next(it, debug) ==
    LET ksome == it.key_iter # <<>>
        vsome == it.val_iter # <<>>
        rest == [key_iter |-> IF ksome THEN Tail(it.key_iter) ELSE <<>>,
                 val_iter |-> IF vsome THEN Tail(it.val_iter) ELSE <<>>]
    IN  IF debug /\ (ksome # vsome) THEN [it |-> rest, status |-> "debug_assert", item |-> None]
        ELSE IF ksome /\ vsome
             THEN [it |-> rest, status |-> "ok",
                   item |-> Some(<<Head(it.key_iter), Head(it.val_iter)>>)]
        ELSE [it |-> rest, status |-> "ok", item |-> None]

\* (len as f32 * 1.1_f32) as usize: 1.1_f32 is 9227469 / 2^23, and for the lengths
\* of the model the rounding of the product to f32 does not cross an integer
IterCapacity(n) == (n * 9227469) \div 8388608

RECURSIVE Collect(_, _, _, _)
\* `for (i, (key, value)) in self.enumerate()`
Collect(it, debug, i, d) ==
    LET r == next(it, debug)
    IN  IF r.status # "ok" THEN Outcome(d, r.status, None)
        ELSE IF ~r.item.some THEN Outcome(d, "ok", None)
        ELSE Collect(r.it, debug, i + 1,
                     [d EXCEPT !.keys = Append(@, r.item.val[1]),
                               !.values = Append(@, r.item.val[2]),
                               !.key_map = MapInsert(@, r.item.val[1], i)])

\* Into<Dictionary<K, V>> for DictIter<K, V>
into(it, debug) ==
    IF debug /\ Len(it.key_iter) # Len(it.val_iter)
    THEN Outcome(new, "debug_assert", None)
    ELSE Collect(it, debug, 0,
                 Dict(Len(it.key_iter), IterCapacity(Len(it.key_iter)), <<>>, EmptyMap, <<>>))

\* PartialEq for Dictionary
eq(a, b) ==
    IF a.values # b.values THEN FALSE
    ELSE IF a.keys # b.keys THEN FALSE
    ELSE IF a.key_map # b.key_map THEN FALSE
    ELSE TRUE

\* ------------------------------------------------------- the state machine
\* hist says which kinds of call have been made so far: "push_dup", a push_back of
\* a key that keys already held; "remove"; "other", any method but push_back and
\* remove.  last is the method called last (the constructor at first), with hist as
\* it was before that call and whether the call changed the dictionary.  Both are
\* history only: no method reads them.
Store(o) ==
    /\ len' = o.d.len
    /\ capacity' = o.d.capacity
    /\ keys' = o.d.keys
    /\ key_map' = o.d.key_map
    /\ values' = o.d.values
    /\ status' = o.status

Called(op, tags) ==
    /\ last' = [op |-> op, pre |-> hist,
                changed |-> <<len', capacity', keys', key_map', values'>>
                            # <<len, capacity, keys, key_map, values>>]
    /\ hist' = hist \cup tags

Occurs(key, ks) == \E i \in 1..Len(ks) : ks[i] = key

Constructed(d, fn) ==
    /\ len = d.len
    /\ capacity = d.capacity
    /\ keys = d.keys
    /\ key_map = d.key_map
    /\ values = d.values
    /\ status = "ok"
    /\ last = [op |-> fn, pre |-> {}, changed |-> FALSE]
    /\ hist = {}

Init ==
    \/ Constructed(new, "new")
    \/ \E size \in 0..MaxCap : Constructed(with_capacity(size), "with_capacity")

PushBack(key, value) ==
    /\ status = "ok"
    /\ Store(push_back(Self, key, value))
    /\ Called("push_back", IF Occurs(key, keys) THEN {"push_dup"} ELSE {})

Remove(key) ==
    /\ status = "ok"
    /\ Store(remove(Self, key))
    /\ Called("remove", {"remove"})

Insert(key, value, index) ==
    /\ status = "ok"
    /\ Store(insert(Self, key, value, index))
    /\ Called("insert", {"other"})

Reserve(size) ==
    /\ status = "ok"
    /\ Store(reserve(Self, size))
    /\ Called("reserve", {"other"})

SortByKeys ==
    /\ status = "ok"
    /\ Store(sort_by_keys(Self))
    /\ Called("sort_by_keys", {"other"})

SortByValues ==
    /\ status = "ok"
    /\ Store(sort_by_values(Self))
    /\ Called("sort_by_values", {"other"})

\* dict.into_iter().into(): the dictionary is consumed and rebuilt from its pairs
RoundTrip(debug) ==
    /\ status = "ok"
    /\ Store(into(into_iter(Self), debug))
    /\ Called("into", {"other"})

\* Every method, with any arguments, on dictionaries of at most MaxLen entries
Next ==
    \/ \E key \in Keys, value \in Vals : Len(keys) < MaxLen /\ PushBack(key, value)
    \/ \E key \in Keys : Remove(key)
    \/ \E key \in Keys, value \in Vals, index \in 0..(MaxLen + 1) :
          Len(keys) < MaxLen /\ Insert(key, value, index)
    \/ \E size \in 1..MaxReserve : capacity + size <= MaxCapacity /\ Reserve(size)
    \/ SortByKeys
    \/ SortByValues
    \/ \E debug \in BOOLEAN : RoundTrip(debug)

Spec == Init /\ [][Next]_vars

\* Dictionaries of up to BuiltLen entries built by push_back of keys not yet held
\* and by remove, and the two sorts on them
NextBuilt ==
    \/ \E key \in BuiltKeys, value \in Vals :
          Len(keys) < BuiltLen /\ ~Occurs(key, keys) /\ PushBack(key, value)
    \/ \E key \in BuiltKeys : Remove(key)
    \/ SortByKeys
    \/ SortByValues

SpecBuilt == Init /\ [][NextBuilt]_vars

\* Consecutive push_back calls on a dictionary made by new(), MaxPush of them, of
\* any keys (new or held); push_back reads the value nowhere, so one value is pushed
InitGrowth == Constructed(new, "new")

NextGrowth == \E key \in Keys : len < MaxPush /\ PushBack(key, 1)

SpecGrowth == InitGrowth /\ [][NextGrowth]_vars

\* ------------------------------------------------------------ the claims
\* the dictionary as the step leaves it
SelfNext == Dict(len', capacity', keys', key_map', values')

KeySet(ks) == {ks[i] : i \in 1..Len(ks)}

PairSet(d) == {<<d.keys[i], d.values[i]>> : i \in 1..Len(d.keys)}

\* what a caller sees of a call: how it ended and what it returned
Seen(o) == [status |-> o.status, ret |-> o.ret]

\* C1: after any sequence of push_back, remove, insert and sort calls that have
\* completed, get_index(key_map[k]) equals get(k) for every key k of key_map.
C1_GetIndexAgreesWithGet ==
    status = "ok" =>
        \A k \in DOMAIN key_map : Seen(get_index(Self, key_map[k])) = Seen(get(Self, k))

\* C2: after every public operation that has completed, keys().len(), values().len()
\* and len() are the same number.
C2_LengthsAgree ==
    status = "ok" => (Len(keys) = Len(values) /\ Len(values) = len)

\* C3: after every public operation that has completed, key_map holds exactly the
\* keys occurring in keys(), and each key_map[k] is a position of keys() holding k.
C3_KeyMapExact ==
    status = "ok" =>
        /\ DOMAIN key_map = KeySet(keys)
        /\ \A k \in DOMAIN key_map : key_map[k] < Len(keys) /\ At(keys, key_map[k]) = k

\* C4: on a dictionary built by push_back of pairwise distinct keys, sort_by_keys()
\* completes and get(k) returns afterwards what it returned before, for every key k.
C4_SortByKeysKeepsPairing ==
    [][(hist = {} /\ SortByKeys) =>
          /\ status' = "ok"
          /\ \A k \in BuiltKeys : Seen(get(SelfNext, k)) = Seen(get(Self, k))]_vars

\* C5: on a dictionary built by push_back of pairwise distinct keys (values may
\* repeat), sort_by_values() completes, get(k) returns afterwards what it returned
\* before for every key k, and the (key, value) pairs are the same pairs.
C5_SortByValuesKeepsPairing ==
    [][(hist = {} /\ SortByValues) =>
          /\ status' = "ok"
          /\ \A k \in BuiltKeys : Seen(get(SelfNext, k)) = Seen(get(Self, k))
          /\ PairSet(SelfNext) = PairSet(Self)]_vars

\* sort_by_values has acted on a full dictionary built by push_back of distinct
\* keys, two of whose values are the same
C5_Witness ==
    /\ last = [op |-> "sort_by_values", pre |-> {}, changed |-> TRUE]
    /\ status = "ok"
    /\ len = BuiltLen
    /\ \E i \in 1..(Len(values) - 1) : values[i] = values[i + 1]
    /\ \E i \in 1..(Len(keys) - 1) : keys[i] > keys[i + 1]

\* C6: a dictionary in any state the methods reach, turned into a DictIter by
\* into_iter() and back by into(), compares equal (PartialEq) to the original.
C6_RoundTripEqual ==
    status = "ok" =>
        \A debug \in BOOLEAN :
            LET o == into(into_iter(Self), debug)
            IN  o.status = "ok" /\ eq(o.d, Self)

\* C7: from any state reached by push_back and remove, a second sort_by_keys()
\* right after a first leaves keys, values and key_map as the first left them.
C7_SortByKeysIdempotent ==
    (status = "ok" /\ "other" \notin hist) =>
        LET once == sort_by_keys(Self)
            twice == sort_by_keys(once.d)
        IN  once.status = "ok" =>
                /\ twice.status = "ok"
                /\ twice.d.keys = once.d.keys
                /\ twice.d.values = once.d.values
                /\ twice.d.key_map = once.d.key_map

\* the capacities the claim lists, after the 1st, 2nd, ..., 8th push_back
GrowthSchedule == <<2, 2, 4, 4, 8, 8, 8, 8>>

\* C8: from new(), capacity() after the n-th consecutive push_back is the n-th of
\* 2, 2, 4, 4, 8, 8, 8, 8, and a push_back changes capacity exactly when it finds
\* len == capacity.
C8_GrowthSchedule ==
    /\ [](len \in 1..Len(GrowthSchedule) => capacity = GrowthSchedule[len])
    /\ [][(capacity' # capacity) <=> (len = capacity)]_vars

\* the 8th push_back has been made
C8_Witness ==
    /\ last.op = "push_back"
    /\ len = Len(GrowthSchedule)
    /\ capacity = 8

\* C9: capacity() >= len() after every public operation that has completed, on a
\* dictionary from new() or with_capacity(n) and on one rebuilt from a DictIter.
C9_CapacityAtLeastLen == status = "ok" => capacity >= len

\* a dictionary of MaxLen entries has been rebuilt from its DictIter, which changed
\* it, and is left with no spare capacity
C9_Witness ==
    /\ status = "ok"
    /\ last.op = "into"
    /\ last.changed
    /\ len = MaxLen
    /\ capacity = len

\* C10: after every public operation that has completed, the keys of keys() are
\* pairwise distinct.
C10_KeysDistinct ==
    status = "ok" =>
        \A i, j \in 1..Len(keys) : i # j => keys[i] # keys[j]

\* C11: in every reachable state, insert(key, value, position) with
\* position > len() aborts, and leaves keys, values, key_map, len and capacity as
\* they were.
C11_InsertBeyondLenFails ==
    [][\A key \in Keys, value \in Vals, index \in 0..(MaxLen + 1) :
          (index > len /\ Insert(key, value, index)) =>
              (status' # "ok" /\ SelfNext = Self)]_vars

\* C12: from any reachable state, every call of push_back, remove, sort_by_keys or
\* sort_by_values, and of insert with position <= len(), runs to completion.
C12_CallsComplete ==
    [][(\/ last'.op \in {"push_back", "remove", "sort_by_keys", "sort_by_values"}
        \/ \E key \in Keys, value \in Vals, index \in 0..(MaxLen + 1) :
              index <= len /\ Insert(key, value, index))
       => status' = "ok"]_vars

\* the 0-based position of a key that occurs in ks
PosOf(ks, k) == CHOOSE i \in 0..(Len(ks) - 1) : At(ks, i) = k

\* s with the element at 0-based position p left out, the others in their order
Without(s, p) == [i \in 1..(Len(s) - 1) |-> IF i <= p THEN s[i] ELSE s[i + 1]]

\* C13: in a state reached by push_back of pairwise distinct keys and remove calls,
\* remove(k) of a present key returns the value pushed with k (a push_back adds its
\* pair to the pairs held, and remove takes the pair of k away and returns its
\* value), get(k) is None afterwards and len() is one less.
C13_RemoveReturnsPushedValue ==
    [][("other" \notin hist) =>
          /\ \A key \in BuiltKeys, value \in Vals :
                (~Occurs(key, keys) /\ PushBack(key, value)) =>
                    PairSet(SelfNext) = PairSet(Self) \cup {<<key, value>>}
          /\ \A key \in BuiltKeys :
                (Occurs(key, keys) /\ Remove(key)) =>
                    LET o == remove(Self, key)
                    IN  /\ status' = "ok"
                        /\ o.ret.some
                        /\ <<key, o.ret.val>> \in PairSet(Self)
                        /\ PairSet(SelfNext) = PairSet(Self) \ {<<key, o.ret.val>>}
                        /\ Seen(get(SelfNext, key)) = [status |-> "ok", ret |-> None]
                        /\ len' = len - 1]_vars

\* remove has taken a key out of a full dictionary built by push_back alone
C13_Witness ==
    /\ last = [op |-> "remove", pre |-> {}, changed |-> TRUE]
    /\ status = "ok"
    /\ len = BuiltLen - 1

\* C14: in a state reached by push_back of pairwise distinct keys and remove calls,
\* remove(k) of a present key leaves get(j) as it was for every other key j, leaves
\* the other keys and their values in their order, lowers by one the stored
\* position of exactly the keys that were after k, and leaves capacity() alone.
C14_RemoveFrame ==
    [][\A key \in BuiltKeys :
          ("other" \notin hist /\ Occurs(key, keys) /\ Remove(key)) =>
              LET p == PosOf(keys, key)
              IN  /\ \A j \in BuiltKeys \ {key} :
                        Seen(get(SelfNext, j)) = Seen(get(Self, j))
                  /\ keys' = Without(keys, p)
                  /\ values' = Without(values, p)
                  /\ DOMAIN key_map' = (DOMAIN key_map) \ {key}
                  /\ \A j \in DOMAIN key_map' :
                        key_map'[j] = IF PosOf(keys, j) > p THEN key_map[j] - 1
                                      ELSE key_map[j]
                  /\ capacity' = capacity]_vars

\* remove has taken out a key that was neither first nor last, after an earlier
\* remove call and further push_back calls
C14_Witness ==
    /\ last = [op |-> "remove", pre |-> {"remove"}, changed |-> TRUE]
    /\ status = "ok"
    /\ Len(keys) = BuiltLen - 1
    /\ \E k \in DOMAIN key_map : key_map[k] = 0
    /\ \E k \in BuiltKeys : k \notin KeySet(keys) /\ At(keys, 0) < k /\ k < At(keys, 1)

\* push_back, remove and insert with any arguments on dictionaries of at most
\* WideLen entries: one entry more than Spec, which a key_map entry left behind
\* by remove needs
NextWide ==
    \/ \E key \in Keys, value \in Vals : Len(keys) < WideLen /\ PushBack(key, value)
    \/ \E key \in Keys : Remove(key)
    \/ \E key \in Keys, value \in Vals, index \in 0..WideLen :
          Len(keys) < WideLen /\ Insert(key, value, index)

SpecWide == Init /\ [][NextWide]_vars

\* C15: in every reachable state, for a key that is not in keys(), remove(key)
\* returns None, get(key) returns None and get_or(key, d) returns d, none of them
\* aborts and the dictionary is left as it was.
C15_NotFound ==
    status = "ok" =>
        \A key \in Keys :
            ~Occurs(key, keys) =>
                /\ remove(Self, key) = Outcome(Self, "ok", None)
                /\ get(Self, key) = Outcome(Self, "ok", None)
                /\ \A d \in Vals : get_or(Self, key, d) = Outcome(Self, "ok", d)

\* C16: in every reachable state, push_back(k, v) of a key k that is not in keys()
\* makes k the last key and v the last value, adds 1 to len(), and get(k) returns v
\* afterwards.
C16_PushBackAppends ==
    [][\A key \in Keys, value \in Vals :
          (~Occurs(key, keys) /\ PushBack(key, value)) =>
              /\ status' = "ok"
              /\ keys' = Append(keys, key)
              /\ values' = Append(values, value)
              /\ len' = len + 1
              /\ Seen(get(SelfNext, key)) = [status |-> "ok", ret |-> Some(value)]]_vars

\* Dictionaries of up to BuiltLen entries built by push_back of keys not yet held
\* and by remove, and then one insert with any key and position
NextInsert ==
    \/ \E key \in BuiltKeys, value \in Vals :
          /\ "other" \notin hist
          /\ Len(keys) < BuiltLen /\ ~Occurs(key, keys) /\ PushBack(key, value)
    \/ \E key \in BuiltKeys : "other" \notin hist /\ Remove(key)
    \/ \E key \in BuiltKeys, value \in Vals, index \in 0..BuiltLen :
          /\ "other" \notin hist
          /\ Len(keys) < BuiltLen /\ Insert(key, value, index)

SpecInsert == Init /\ [][NextInsert]_vars

\* s with x put in at 0-based position p, the elements from p on moved up by one
With(s, p, x) ==
    [i \in 1..(Len(s) + 1) |-> IF i <= p THEN s[i] ELSE IF i = p + 1 THEN x ELSE s[i - 1]]

\* C17: on a dictionary built by push_back of pairwise distinct keys and remove
\* calls, insert(key, value, p) of a new key with p in [0, len()] completes, makes
\* keys() the previous keys() with key put in at p and values() the previous
\* values() with value put in at p, and raises by one the stored position of
\* exactly the keys that were at a position >= p.
C17_InsertShifts ==
    [][\A key \in BuiltKeys, value \in Vals, index \in 0..BuiltLen :
          ("other" \notin hist /\ ~Occurs(key, keys) /\ index <= len
              /\ Insert(key, value, index)) =>
              /\ status' = "ok"
              /\ keys' = With(keys, index, key)
              /\ values' = With(values, index, value)
              /\ DOMAIN key_map' = DOMAIN key_map
              /\ \A j \in DOMAIN key_map :
                    key_map'[j] = IF PosOf(keys, j) >= index THEN key_map[j] + 1
                                  ELSE key_map[j]]_vars

\* insert has put a new key between two keys of a dictionary built by push_back
\* and remove: the key after it has moved up, the key before it has not
C17_Witness ==
    /\ last.op = "insert"
    /\ "other" \notin last.pre
    /\ status = "ok"
    /\ Len(keys) = BuiltLen
    /\ At(keys, 1) \notin DOMAIN key_map
    /\ At(keys, 0) \in DOMAIN key_map /\ key_map[At(keys, 0)] = 0
    /\ At(keys, 2) \in DOMAIN key_map /\ key_map[At(keys, 2)] = 2

\* C18: on a dictionary built by push_back of pairwise distinct keys and remove
\* calls (of any length, values may repeat), sort_by_values() completes and leaves
\* values() ascending and the same (key, value) pairs, each once.
C18_SortByValuesAscending ==
    [][("other" \notin hist /\ SortByValues) =>
          /\ status' = "ok"
          /\ \A i \in 1..(Len(values') - 1) : values'[i] <= values'[i + 1]
          /\ Len(keys') = Len(keys)
          /\ Len(values') = Len(values)
          /\ PairSet(SelfNext) = PairSet(Self)]_vars

\* sort_by_values has reordered a full dictionary built by push_back and remove
C18_Witness ==
    /\ last = [op |-> "sort_by_values", pre |-> {"remove"}, changed |-> TRUE]
    /\ status = "ok"
    /\ len = BuiltLen
    /\ values[1] < values[BuiltLen]

RECURSIVE Drain(_, _, _)
\* next called until it returns None or panics: the pairs yielded so far and how
\* the last call ended
Drain(it, debug, items) ==
    LET r == next(it, debug)
    IN  IF r.status # "ok" \/ ~r.item.some
        THEN [items |-> items, status |-> r.status, it |-> r.it]
        ELSE Drain(r.it, debug, Append(items, r.item.val))

\* C19: in every reachable state, in a debug and in a release build, the iterator
\* of into_iter() yields keys().len() pairs, the i-th being (keys()[i], values()[i]),
\* then None, and the debug_assert of next never fails.
C19_TraversalInOrder ==
    status = "ok" =>
        \A debug \in BOOLEAN :
            LET r == Drain(into_iter(Self), debug, <<>>)
            IN  /\ r.status = "ok"
                /\ r.items = [i \in 1..Len(keys) |-> <<keys[i], values[i]>>]
                /\ next(r.it, debug).status = "ok"
                /\ ~next(r.it, debug).item.some

\* a dictionary of MaxLen entries with different values, one of them put in by
\* insert, whose traversal has just been collected again
C19_Witness ==
    /\ last.op = "into" /\ "other" \in last.pre
    /\ status = "ok"
    /\ Len(keys) = MaxLen
    /\ values[1] # values[MaxLen]
    /\ len = MaxLen

\* Growth from every capacity of 0..MaxGrow: a dictionary from new() or
\* with_capacity(n), filled by push_back, its capacity raised by reserve
InitCapacity ==
    \/ Constructed(new, "new")
    \/ \E n \in 0..MaxGrow : Constructed(with_capacity(n), "with_capacity")

NextCapacity ==
    \/ \E key \in Keys : len <= MaxGrow /\ PushBack(key, 1)
    \/ \E size \in 1..MaxReserve : capacity + size <= MaxGrow /\ Reserve(size)

SpecCapacity == InitCapacity /\ [][NextCapacity]_vars

\* the least power of two above c, found among 2^0 .. 2^(c+1)
SmallestPow2Above(c) ==
    CHOOSE p \in {2 ^ e : e \in 0..(c + 1)} :
        p > c /\ \A q \in {2 ^ e : e \in 0..(c + 1)} : q > c => p <= q

\* C20 as stated: a push_back that finds len == capacity sets capacity to the
\* smallest power of two strictly greater than the capacity c it found, for every
\* c >= 0 of 0..MaxGrow.
C20_GrowthToNextPow2 ==
    [][\A key \in Keys :
          (len = capacity /\ PushBack(key, 1)) =>
              capacity' = SmallestPow2Above(capacity)]_vars

\* C20 amended: a push_back that finds len == capacity sets capacity to the
\* smallest power of two strictly greater than the capacity c it found for every
\* c of 1..MaxGrow, powers of two or not, and to 2 for c = 0.
C20_GrowthToNextPow2From1 ==
    [][\A key \in Keys :
          (len = capacity /\ PushBack(key, 1)) =>
              capacity' = IF capacity = 0 THEN 2 ELSE SmallestPow2Above(capacity)]_vars

\* a push_back has filled a capacity of 3 that reserve has set, and the next
\* push_back grows it to 4
C20_Witness ==
    /\ last.op = "push_back" /\ "other" \in hist
    /\ status = "ok"
    /\ len = capacity /\ capacity = 3
    /\ \A key \in Keys : push_back(Self, key, 1).d.capacity = 4

\* Dictionaries built by push_back only, of any keys (new or held) and any values,
\* up to PushLen entries
NextPush == \E key \in Keys, value \in Vals : Len(keys) < PushLen /\ PushBack(key, value)

SpecPush == Init /\ [][NextPush]_vars

\* the 0-based positions at which ks holds k
Positions(ks, k) == {i \in 0..(Len(ks) - 1) : At(ks, i) = k}

\* C21: on a dictionary built by push_back only, push_back(k, v) of a key that
\* keys already holds overwrites nothing: k and v are appended, so k is held at
\* its old positions and at the new last one (two positions if it was held once),
\* len grows by 1, key_map[k] is the new last position, get(k) returns v, and the
\* older values are still returned by get_index at the old positions.
C21_PushBackHeldKeyAppends ==
    [][\A key \in Keys, value \in Vals :
          (Occurs(key, keys) /\ PushBack(key, value)) =>
              /\ status' = "ok"
              /\ keys' = Append(keys, key)
              /\ values' = Append(values, value)
              /\ Positions(keys', key) = Positions(keys, key) \cup {Len(keys)}
              /\ (Cardinality(Positions(keys, key)) = 1
                    => Cardinality(Positions(keys', key)) = 2)
              /\ len' = len + 1
              /\ key_map' = [key_map EXCEPT ![key] = Len(keys)]
              /\ Seen(get(SelfNext, key)) = [status |-> "ok", ret |-> Some(value)]
              /\ \A p \in Positions(keys, key) :
                    Seen(get_index(SelfNext, p)) = [status |-> "ok", ret |-> Some(At(values, p))]]_vars

\* the first push_back of a held key has been made, with a value other than the
\* one the key was first pushed with
C21_Witness ==
    /\ last = [op |-> "push_back", pre |-> {}, changed |-> TRUE]
    /\ hist = {"push_dup"}
    /\ status = "ok"
    /\ Len(keys) = 3
    /\ Positions(keys, At(keys, 2)) = {0, 2}
    /\ At(values, 0) # At(values, 2)
    /\ key_map[At(keys, 2)] = 2

C23_LookupsStayInRange ==
    status = "ok" =>
        /\ \A k \in DOMAIN key_map : key_map[k] < Len(values)
        /\ \A key \in Keys :
              /\ get(Self, key).status = "ok"
              /\ \A default \in Vals : get_or(Self, key, default).status = "ok"
              /\ remove(Self, key).status = "ok"

\* C24: after insert(key, value, p) of a key not held before, with p <= len(),
\* get(key) returns value and get_index(p) returns value.
C24_InsertedIsFound ==
    [][\A key \in Keys, value \in Vals, index \in 0..(MaxLen + 1) :
          (~Occurs(key, keys) /\ key \notin DOMAIN key_map /\ index <= len
              /\ Insert(key, value, index)) =>
              /\ status' = "ok"
              /\ Seen(get(SelfNext, key)) = [status |-> "ok", ret |-> Some(value)]
              /\ Seen(get_index(SelfNext, index)) = [status |-> "ok", ret |-> Some(value)]]_vars

\* C25: sort_by_values is stable: on a dictionary built by push_back of pairwise
\* distinct keys, two entries with equal values are in keys() in the same order
\* after sort_by_values() as before it.
C25_SortByValuesStable ==
    [][(hist = {} /\ SortByValues) =>
          /\ status' = "ok"
          /\ \A i, j \in 1..Len(keys) :
                (i < j /\ values[i] = values[j]) =>
                    PosOf(keys', keys[i]) < PosOf(keys', keys[j])]_vars

\* sort_by_values has moved a smaller value in front of two equal ones, on a full
\* dictionary built by push_back alone
C25_Witness ==
    /\ last = [op |-> "sort_by_values", pre |-> {}, changed |-> TRUE]
    /\ status = "ok"
    /\ Len(keys) = BuiltLen
    /\ values[1] < values[BuiltLen - 1]
    /\ values[BuiltLen - 1] = values[BuiltLen]

====
